---------------------------- MODULE Spec2Model ----------------------------
(***************************************************************************)
(* Metadata store, validator, editor and generation-time image selection   *)
(* of the slide generator (content_manager/metadata/*, generation/).       *)
(*                                                                         *)
(* A Python str is modelled as a sequence of one-character strings where   *)
(* the code parses it (product names, settings group keys); image names,   *)
(* content types and settings_source tags are atoms.  None is the          *)
(* sentinel NoneV, which no parse can produce.                             *)
(***************************************************************************)
EXTENDS Integers, Sequences, FiniteSets, TLC

VARIABLES metadata,   \* the store: MetadataEditor.metadata / Metadata.data
          files,      \* file system: set of <<folder, file name>>
          disk,       \* contents of metadata.json
          strict,     \* MetadataValidator.strict
          expected,   \* arguments of validate(): content types and products
          errors,     \* MetadataValidator.errors
          warnings,   \* MetadataValidator.warnings
          vres,       \* outcome of the last validate() call
          prev,       \* outcome of the validate() call before the last one
          gen,        \* position and locals of Generator.generate
          nops,       \* number of editor calls made so far
          last        \* the last operation performed, its arguments, outcome

vars == <<metadata, files, disk, strict, expected, errors, warnings, vres,
          prev, gen, nops, last>>

-----------------------------------------------------------------------------
(* Bounds *)

MaxOps == 3        \* editor calls per behaviour
MaxVariations == 2 \* variations of one generation run

-----------------------------------------------------------------------------
(* Values *)

NoneV == <<"None">>   \* None where a product name is expected
Null == "null"        \* None where a settings blob is expected
ALL == <<"a", "l", "l">>
P1 == <<"p">>
P2 == <<"q">>
BOGUS == <<"z">>
CONTENT == <<"c", "o", "n", "t", "e", "n", "t">>

ImageNames == <<"a.png", "b.png", "c.png">>
ContentTypes == <<"cta", "hook">>
BASE == "base"

\* Python's ordering of the strings used as image names and content types.
NameRank(s) ==
    CASE s = "a.png" -> 1 [] s = "b.png" -> 2 [] s = "c.png" -> 3
      [] s = "cta" -> 4 [] s = "hook" -> 5
      [] OTHER -> 9

\* Python's ordering of the strings used as product names
ProductRank(p) == CASE p = ALL -> 1 [] p = P1 -> 2 [] p = P2 -> 3 [] OTHER -> 4

Range(s) == {s[i] : i \in 1..Len(s)}

\* AssignKey that deletes the key and inserts it again, at the end
AssignKey_MoveToEnd(keys, key) == Append(SelectSeq(keys, LAMBDA k : k # key), key)

\* d[key] = value on the top-level dict, as it acts on the order of the keys:
\* an existing key keeps its place, a new key goes to the end
AssignKey(keys, key) == IF key \in Range(keys) THEN keys ELSE Append(keys, key)

\* sorted(list) of image names
Sorted(s) == SortSeq(s, LAMBDA a, b : NameRank(a) < NameRank(b))

\* names == sorted(names)
IsSorted(s) == \A i \in 1..(Len(s) - 1) : NameRank(s[i]) <= NameRank(s[i + 1])

NoDup(s) == \A i, j \in 1..Len(s) : i # j => s[i] # s[j]

\* Python truthiness of an Optional[str]
Truthy(p) == p # NoneV /\ p # <<>>

\* value of a key of an ordered dict given as a sequence of [key, value]
HasKey(d, key) == \E i \in 1..Len(d) : d[i].key = key
ValueOf(d, key) == d[CHOOSE i \in 1..Len(d) : d[i].key = key].value

DEFAULT_TEMPLATE == "default_template"

\* dict lookup by name in the ordered images dict
HasImage(md, n) == \E i \in 1..Len(md.images) : md.images[i].name = n
ImageIdx(md, n) == CHOOSE i \in 1..Len(md.images) : md.images[i].name = n
ImageOf(md, n) == md.images[ImageIdx(md, n)]

-----------------------------------------------------------------------------
(* MetadataEditor *)

\* MetadataEditor._update_product_count: the first product of content_type
\* named product gets its current_count moved by one; no such product, no
\* change.
RECURSIVE BumpFirst(_, _, _)
BumpFirst(prods, product, delta) ==
    IF prods = <<>> THEN <<>>
    ELSE IF Head(prods).name = product
         THEN <<[Head(prods) EXCEPT !.current_count = @ + delta]>> \o Tail(prods)
         ELSE <<Head(prods)>> \o BumpFirst(Tail(prods), product, delta)

_update_product_count(md, content_type, product, increment) ==
    [md EXCEPT !.products[content_type] =
        BumpFirst(@, product, IF increment THEN 1 ELSE -1)]

\* edit_image that updates the counts and the record but not untagged
edit_image_KeepUntagged(md, image_name, data) ==
    IF ~HasImage(md, image_name)
    THEN [raised |-> TRUE, md |-> md]
    ELSE
    LET i == ImageIdx(md, image_name)
        image == md.images[i]
        md1 == IF Truthy(image.product)
               THEN _update_product_count(md, image.content_type,
                                          image.product, FALSE)
               ELSE md
        md2 == IF Truthy(data["product"])
               THEN _update_product_count(md1, image.content_type,
                                          data["product"], TRUE)
               ELSE md1
        md4 == IF "product" \in DOMAIN data THEN md2 ELSE md
        updated == [f \in DOMAIN image |->
                       IF f \in DOMAIN data THEN data[f] ELSE image[f]]
    IN [raised |-> FALSE, md |-> [md4 EXCEPT !.images[i] = updated]]

\* MetadataEditor.edit_image.  data is a partial image record (a function
\* on a subset of the field names).
edit_image(md, image_name, data) ==
    IF ~HasImage(md, image_name)
    THEN [raised |-> TRUE, md |-> md]
    ELSE
    LET i == ImageIdx(md, image_name)
        image == md.images[i]
        content_type == image.content_type
        new_product == data["product"]
        old_product == image.product
        md1 == IF Truthy(old_product)
               THEN _update_product_count(md, content_type, old_product, FALSE)
               ELSE md
        md2 == IF Truthy(new_product)
               THEN _update_product_count(md1, content_type, new_product, TRUE)
               ELSE md1
        md3 == IF new_product = NoneV
               THEN IF image_name \notin Range(md2.untagged)
                    THEN [md2 EXCEPT !.untagged = Append(@, image_name)]
                    ELSE md2
               ELSE [md2 EXCEPT !.untagged =
                        SelectSeq(@, LAMBDA img : img # image_name),
                                !.keys = AssignKey(@, "untagged")]
        md4 == IF "product" \in DOMAIN data THEN md3 ELSE md
        updated == [f \in DOMAIN image |->
                       IF f \in DOMAIN data THEN data[f] ELSE image[f]]
    IN [raised |-> FALSE, md |-> [md4 EXCEPT !.images[i] = updated]]

\* MetadataEditor.edit_untagged
edit_untagged(md, untagged) ==
    [md EXCEPT !.untagged = untagged, !.keys = AssignKey(@, "untagged")]

\* MetadataEditor.update_image_product
update_image_product(md, image_name, content_type, new_product) ==
    IF ~HasImage(md, image_name)
    THEN [raised |-> TRUE, md |-> md]
    ELSE
    LET i == ImageIdx(md, image_name)
        actual_content_type == md.images[i].content_type
        valid_products ==
            {md.products[actual_content_type][k].name :
                k \in 1..Len(md.products[actual_content_type])}
        old_product == md.images[i].product
        md1 == IF Truthy(old_product)
               THEN _update_product_count(md, content_type, old_product, FALSE)
               ELSE md
        md2 == _update_product_count(md1, content_type, new_product, TRUE)
    IN IF new_product \notin valid_products
       THEN [raised |-> TRUE, md |-> md]
       ELSE [raised |-> FALSE, md |-> [md2 EXCEPT !.images[i].product = new_product]]

\* d[key] = value on an ordered dict given as a sequence of [key, value]
PutEntry(d, key, value) ==
    IF \E i \in 1..Len(d) : d[i].key = key
    THEN [i \in 1..Len(d) |->
             IF d[i].key = key THEN [key |-> key, value |-> value] ELSE d[i]]
    ELSE Append(d, [key |-> key, value |-> value])

\* MetadataEditor.edit_settings.  target is a content type, a product name
\* or an image name, as level says; content_type is "" when the caller
\* passes none.
edit_settings(md, level, target, data, content_type) ==
    LET raise == [raised |-> TRUE, md |-> md] IN
    IF level = "product" /\ content_type = "" THEN raise
    ELSE IF level # "product" /\ content_type # "" THEN raise
    ELSE IF level = "content_type"
    THEN [raised |-> FALSE,
          md |-> [md EXCEPT !.settings =
                    [ct \in DOMAIN md.settings \cup {target} |->
                        IF ct # target THEN md.settings[ct]
                        ELSE PutEntry(IF target \in DOMAIN md.settings
                                      THEN md.settings[target] ELSE <<>>,
                                      CONTENT, data)]]]
    ELSE IF level = "product" THEN raise
    ELSE IF level = "custom"
    THEN IF ~HasImage(md, target) THEN raise
         ELSE [raised |-> FALSE,
               md |-> [md EXCEPT !.images[ImageIdx(md, target)] =
                         [@ EXCEPT !.settings_source = "custom",
                                   !.settings = data]]]
    ELSE [raised |-> FALSE, md |-> md]

-----------------------------------------------------------------------------
(* File system: files is a set of <<folder, file name, size>>; size 0 is a  *)
(* file PIL cannot open, any other size stands for its (width, height).    *)

Exists(fs, dir, name) == \E f \in fs : f[1] = dir /\ f[2] = name
FileOf(fs, dir, name) == CHOOSE f \in fs : f[1] = dir /\ f[2] = name

\* list.remove(x): drops the first occurrence
RECURSIVE RemoveFirst(_, _)
RemoveFirst(s, x) ==
    IF s = <<>> THEN <<>>
    ELSE IF Head(s) = x THEN Tail(s)
         ELSE <<Head(s)>> \o RemoveFirst(Tail(s), x)

\* dict(sorted(images.items()))
SortImages(imgs) ==
    SortSeq(imgs, LAMBDA a, b : NameRank(a.name) < NameRank(b.name))

NewImage(image_name, target_content_type, size) ==
    [name |-> image_name, content_type |-> target_content_type,
     dimensions |-> size, product |-> NoneV,
     settings_source |-> "default", settings |-> Null]

\* images[name] = record: replaces the value of an existing key in place,
\* appends a new key at the end.
PutImage(imgs, rec) ==
    IF \E i \in 1..Len(imgs) : imgs[i].name = rec.name
    THEN [i \in 1..Len(imgs) |-> IF imgs[i].name = rec.name THEN rec ELSE imgs[i]]
    ELSE Append(imgs, rec)

\* move_untagged_image that updates the store but does not write the file
move_untagged_image_NoSave(md, fs, dsk, image_name, target_content_type) ==
    LET fail == [raised |-> TRUE, md |-> md, files |-> fs, disk |-> dsk] IN
    IF image_name \notin Range(md.untagged) THEN fail
    ELSE IF target_content_type \notin Range(md.content_types) THEN fail
    ELSE IF ~Exists(fs, BASE, image_name) THEN fail
    ELSE IF Exists(fs, target_content_type, image_name) THEN fail
    ELSE
    LET src == FileOf(fs, BASE, image_name)
        fs1 == (fs \ {src}) \cup {<<target_content_type, image_name, src[3]>>}
        md1 == [md EXCEPT !.structure[target_content_type] =
                   Sorted(Append(@, image_name))]
        md2 == [md1 EXCEPT !.images = SortImages(
                   PutImage(@, NewImage(image_name, target_content_type, src[3]))),
                           !.keys = AssignKey(@, "images")]
        md3 == [md2 EXCEPT !.untagged = Sorted(RemoveFirst(@, image_name))]
    IN IF src[3] = 0
       THEN [raised |-> TRUE, md |-> md1, files |-> fs1, disk |-> dsk]
       ELSE [raised |-> FALSE, md |-> md3, files |-> fs1, disk |-> dsk]

\* MetadataEditor.move_untagged_image.  Returns the store, the file system
\* and metadata.json as the call leaves them, also when it raises.
move_untagged_image(md, fs, dsk, image_name, target_content_type) ==
    LET fail == [raised |-> TRUE, md |-> md, files |-> fs, disk |-> dsk] IN
    IF image_name \notin Range(md.untagged) THEN fail
    ELSE IF target_content_type \notin Range(md.content_types) THEN fail
    ELSE IF ~Exists(fs, BASE, image_name) THEN fail
    ELSE IF Exists(fs, target_content_type, image_name) THEN fail
    ELSE
    LET src == FileOf(fs, BASE, image_name)
        fs1 == (fs \ {src}) \cup {<<target_content_type, image_name, src[3]>>}
        md1 == [md EXCEPT !.structure[target_content_type] =
                   Sorted(Append(@, image_name))]
        md2 == [md1 EXCEPT !.images = SortImages(
                   PutImage(@, NewImage(image_name, target_content_type, src[3]))),
                           !.keys = AssignKey(@, "images")]
        md3 == [md2 EXCEPT !.untagged = Sorted(RemoveFirst(@, image_name))]
    IN IF src[3] = 0
       THEN [raised |-> TRUE, md |-> md1, files |-> fs1, disk |-> dsk]
       ELSE [raised |-> FALSE, md |-> md3, files |-> fs1, disk |-> md3]

-----------------------------------------------------------------------------
(* str operations on sequences of characters *)

\* s[1:-1]
Inner(s) == IF Len(s) < 2 THEN <<>> ELSE SubSeq(s, 2, Len(s) - 1)

\* s.split(","): always at least one piece
RECURSIVE SplitComma(_, _)
SplitComma(s, acc) ==
    IF s = <<>> THEN <<acc>>
    ELSE IF Head(s) = "," THEN <<acc>> \o SplitComma(Tail(s), <<>>)
         ELSE SplitComma(Tail(s), Append(acc, Head(s)))

\* s.strip()
RECURSIVE LStrip(_)
LStrip(s) == IF s # <<>> /\ Head(s) = " " THEN LStrip(Tail(s)) ELSE s
RECURSIVE RStrip(_)
RStrip(s) ==
    IF s # <<>> /\ s[Len(s)] = " " THEN RStrip(SubSeq(s, 1, Len(s) - 1)) ELSE s
Strip(s) == LStrip(RStrip(s))

\* s.strip("[]"): drops every leading and trailing bracket
RECURSIVE LStripBrackets(_)
LStripBrackets(s) ==
    IF s # <<>> /\ Head(s) \in {"[", "]"} THEN LStripBrackets(Tail(s)) ELSE s
RECURSIVE RStripBrackets(_)
RStripBrackets(s) ==
    IF s # <<>> /\ s[Len(s)] \in {"[", "]"}
    THEN RStripBrackets(SubSeq(s, 1, Len(s) - 1)) ELSE s
StripBrackets(s) == LStripBrackets(RStripBrackets(s))

\* s.split(", "): always at least one piece
RECURSIVE SplitCommaSpace(_, _)
SplitCommaSpace(s, acc) ==
    IF s = <<>> THEN <<acc>>
    ELSE IF Len(s) >= 2 /\ s[1] = "," /\ s[2] = " "
         THEN <<acc>> \o SplitCommaSpace(SubSeq(s, 3, Len(s)), <<>>)
         ELSE SplitCommaSpace(Tail(s), Append(acc, Head(s)))

\* {p.strip() for p in group[1:-1].split(",")}
GroupProducts(group) ==
    LET pieces == SplitComma(Inner(group), <<>>)
    IN {Strip(pieces[i]) : i \in 1..Len(pieces)}

\* key.startswith("[") and key.endswith("]")
Bracketed(key) == key # <<>> /\ key[1] = "[" /\ key[Len(key)] = "]"

-----------------------------------------------------------------------------
(* MetadataEditor: reading settings *)

\* get_settings, lines 197-205: the settings of the first bracketed group, in
\* dict order, whose key lists target; Null when there is none.
RECURSIVE ScanGroups(_, _)
ScanGroups(content_settings, target) ==
    IF content_settings = <<>> THEN Null
    ELSE LET group_key == Head(content_settings).key
             group_products == SplitCommaSpace(StripBrackets(group_key), <<>>)
         IN IF Bracketed(group_key) /\ target \in Range(group_products)
            THEN Head(content_settings).value
            ELSE ScanGroups(Tail(content_settings), target)

\* f"[{target}]"
SingleProductKey(target) == <<"[">> \o target \o <<"]">>

\* MetadataEditor.get_settings.  target and content_type are NoneV and ""
\* when the caller passes none.
get_settings(md, level, target, content_type) ==
    LET raise == [raised |-> TRUE, settings_source |-> "", settings |-> Null]
        return(src, b) == [raised |-> FALSE, settings_source |-> src, settings |-> b]
        content_settings ==
            IF content_type \in DOMAIN md.settings THEN md.settings[content_type]
            ELSE <<>>
    IN IF level = "default" THEN return("default", DEFAULT_TEMPLATE)
       ELSE IF level = "content_type"
       THEN IF target \notin Range(md.content_types) THEN raise
            ELSE IF target \in DOMAIN md.settings /\ HasKey(md.settings[target], CONTENT)
            THEN return("content_type", ValueOf(md.settings[target], CONTENT))
            ELSE return("content_type", Null)
       ELSE IF level = "product"
       THEN IF ~Truthy(target) THEN raise
            ELSE IF content_type = "" THEN raise
            ELSE IF HasKey(content_settings, SingleProductKey(target))
            THEN return("product", ValueOf(content_settings, SingleProductKey(target)))
            ELSE return("product", ScanGroups(content_settings, target))
       ELSE IF level = "custom"
       THEN IF ~HasImage(md, target) THEN raise
            ELSE return(ImageOf(md, target).settings_source, ImageOf(md, target).settings)
       ELSE raise

-----------------------------------------------------------------------------
(* MetadataValidator *)

REQUIRED_KEYS_ORDER ==
    <<"content_types", "products", "structure", "images", "untagged", "settings">>

\* A message: kind k, the image or content type x it names, the product p it
\* names, and the numbers n, m it prints.
Msg(k, x, p, n, m) == [k |-> k, x |-> x, p |-> p, n |-> n, m |-> m]

\* SettingsValidator.validate_settings, an external collaborator: the blob
\* "bad" stands for every blob it rejects.
validate_settings(blob) == blob # "bad"

\* MetadataValidator.add_warning
add_warning(st, msg, key) ==
    IF key \in st.seen THEN st
    ELSE [st EXCEPT !.warnings = Append(@, msg), !.seen = @ \cup {key}]

add_error(st, msg) == [st EXCEPT !.errors = Append(@, msg)]

Fail(st) == [ok |-> FALSE, st |-> st]
Pass(st) == [ok |-> TRUE, st |-> st]

\* Iteration order of a dict keyed by content type.
DictKeys(d) == SelectSeq(ContentTypes, LAMBDA ct : ct \in DOMAIN d)

ProductNames(prods) == {prods[i].name : i \in 1..Len(prods)}

\* MetadataValidator._validate_content_types
_validate_content_types(st, expected_types) ==
    IF Range(st.md.content_types) # Range(expected_types)
    THEN Fail(add_error(st, Msg("content_types_mismatch", "", <<>>, 0, 0)))
    ELSE Pass(st)

\* Images of content type ct whose product is prod: product_counts[ct][prod]
DirectCount(md, ct, prod) ==
    Cardinality({i \in 1..Len(md.images) :
        md.images[i].content_type = ct /\ md.images[i].product = prod})

\* _validate_products, lines 115-162: the first defect of one content type's
\* product list, or "none".
ProductListDefect(prods, expected_names) ==
    IF \E i \in 1..Len(prods) : prods[i].name \notin expected_names
    THEN "invalid_product"
    ELSE IF expected_names \ ProductNames(prods) # {}
         THEN "missing_products"
         ELSE "none"

\* _validate_products, lines 170-196: one pass over the images, reporting
\* every image without a product.
RECURSIVE ReportMissingProducts(_, _, _)
ReportMissingProducts(st, i, isStrict) ==
    IF i > Len(st.md.images) THEN st
    ELSE LET img == st.md.images[i]
             msg == Msg("no_product_assigned", img.name, <<>>, 1, 0)
             key == Msg("missing_product_", img.name, <<>>, 0, 0)
             st1 == IF Truthy(img.product) THEN st
                    ELSE IF isStrict THEN add_error(st, msg)
                         ELSE add_warning(st, msg, key)
         IN ReportMissingProducts(st1, i + 1, isStrict)

\* The (content type, product) pairs in the order products.items() and the
\* product lists give them.
RECURSIVE ProductPairs(_, _)
ProductPairs(products, cts) ==
    IF cts = <<>> THEN <<>>
    ELSE [i \in 1..Len(products[Head(cts)]) |->
             [ct |-> Head(cts), prod |-> products[Head(cts)][i], idx |-> i]]
         \o ProductPairs(products, Tail(cts))

\* The count _validate_products compares with min_occurrences.
MinCheckCount(md, ct, name) == DirectCount(md, ct, name)

\* _validate_products, lines 198-214
RECURSIVE CheckMinOccurrences(_, _, _)
CheckMinOccurrences(st, pairs, isStrict) ==
    IF pairs = <<>> THEN Pass(st)
    ELSE LET ct == Head(pairs).ct
             prod == Head(pairs).prod
             count == MinCheckCount(st.md, ct, prod.name)
             msg == Msg("requires_at_least", ct, prod.name,
                        prod.min_occurrences, count)
         IN IF prod.prevent_duplicates /\ prod.min_occurrences > 0
               /\ count < prod.min_occurrences
            THEN IF isStrict THEN Fail(add_error(st, msg))
                 ELSE CheckMinOccurrences(add_warning(st, msg, msg),
                                          Tail(pairs), isStrict)
            ELSE CheckMinOccurrences(st, Tail(pairs), isStrict)

\* MetadataValidator._validate_products
_validate_products(st, expected_products, isStrict) ==
    LET products == st.md.products
        cts == DictKeys(products)
        bad == SelectSeq(cts, LAMBDA ct :
                   ProductListDefect(products[ct], Range(expected_products[ct]))
                       # "none")
    IN IF DOMAIN products # DOMAIN expected_products
       THEN Fail(add_error(st, Msg("product_content_types_mismatch", "", <<>>, 0, 0)))
       ELSE IF bad # <<>>
       THEN Fail(add_error(st, Msg(
                ProductListDefect(products[Head(bad)],
                                  Range(expected_products[Head(bad)])),
                Head(bad), <<>>, 0, 0)))
       ELSE CheckMinOccurrences(ReportMissingProducts(st, 1, isStrict),
                                ProductPairs(products, cts), isStrict)

\* MetadataValidator._validate_structure
_validate_structure(st, fs) ==
    LET structure == st.md.structure
        cts == DictKeys(structure)
        Defect(ct) ==
            IF ~Exists(fs, BASE, ct) THEN "path_does_not_exist"
            ELSE IF \E i \in 1..Len(structure[ct]) : ~Exists(fs, ct, structure[ct][i])
                 THEN "image_not_found_in_path"
                 ELSE "none"
        bad == SelectSeq(cts, LAMBDA ct : Defect(ct) # "none")
    IN IF bad # <<>>
       THEN Fail(add_error(st, Msg(Defect(Head(bad)), Head(bad), <<>>, 0, 0)))
       ELSE Pass(st)

VALID_SOURCES == {"default", "custom", "product", "content"}

\* _validate_images, lines 380-385: the settings of the first group, in dict
\* order, that lists the product; None when there is none.
RECURSIVE FindGroupSettings(_, _)
FindGroupSettings(groups, product) ==
    IF groups = <<>> THEN Null
    ELSE IF Head(groups).key # CONTENT
            /\ product \in GroupProducts(Head(groups).key)
         THEN Head(groups).value
         ELSE FindGroupSettings(Tail(groups), product)

\* _validate_images, lines 414-436: the product check of one image
ImageProductCheck(st, img, isStrict) ==
    LET valid_products == ProductNames(st.md.products[img.content_type])
    IN IF img.product = NoneV
       THEN IF isStrict
            THEN Fail(add_error(st, Msg("no_product_assigned", img.name, <<>>, 2, 0)))
            ELSE Pass(add_warning(st,
                     Msg("no_product_assigned", img.name, <<>>, 2, 0),
                     Msg("missing_product_", img.name, <<>>, 0, 0)))
       ELSE IF img.content_type \in DOMAIN st.md.products
               /\ img.product # ALL /\ img.product \notin valid_products
            THEN Fail(add_error(st, Msg("invalid_product", img.name, img.product, 0, 0)))
            ELSE Pass(st)

\* _validate_images, lines 322-412: the settings check of one image.
\* skip: the loop body ended with "continue", before the product check.
ImageSettingsCheck(st, img, isStrict) ==
    LET src == img.settings_source
        bad(k) == [ok |-> FALSE, skip |-> FALSE,
                   st |-> add_error(st, Msg(k, img.name, <<>>, 0, 0))]
        warn(k) == [ok |-> TRUE, skip |-> FALSE,
                    st |-> LET m == Msg(k, img.name, <<>>, 0, 0)
                           IN add_warning(st, m, m)]
        fine == [ok |-> TRUE, skip |-> FALSE, st |-> st]
        ct_settings == st.md.settings[img.content_type]
        content_settings ==
            IF HasKey(ct_settings, CONTENT) THEN ValueOf(ct_settings, CONTENT)
            ELSE Null
        product_settings == FindGroupSettings(ct_settings, img.product)
    IN IF src \notin VALID_SOURCES
       THEN IF isStrict THEN bad("invalid_settings_source")
            ELSE warn("invalid_settings_source")
       ELSE IF src = "custom"
       THEN IF img.settings = Null
            THEN IF isStrict THEN bad("custom_but_null")
                 ELSE [warn("custom_but_null") EXCEPT !.skip = TRUE]
            ELSE [fine EXCEPT !.skip = TRUE]
       ELSE IF src = "content"
       THEN IF img.content_type \notin DOMAIN st.md.settings
            THEN bad("no_settings_for_content_type")
            ELSE IF content_settings = Null
            THEN IF isStrict THEN bad("content_level_none_defined")
                 ELSE warn("will_use_default_no_content_level")
            ELSE IF ~validate_settings(content_settings)
                 THEN bad("content_settings_invalid")
                 ELSE fine
       ELSE IF src = "product"
       THEN IF product_settings = Null
            THEN IF isStrict THEN bad("product_level_none_found")
                 ELSE warn("will_use_default_no_product_settings")
            ELSE IF ~validate_settings(product_settings)
                 THEN bad("product_settings_invalid")
                 ELSE fine
       ELSE IF img.settings # Null THEN bad("default_but_non_null") ELSE fine

\* _validate_images, lines 256-436: the body of the loop for one image
ImageCheck(st, img, fs, isStrict) ==
    LET ct == img.content_type
        err(k) == Fail(add_error(st, Msg(k, img.name, <<>>, 0, 0)))
        AfterSettings(sc) ==
            IF ~sc.ok THEN Fail(sc.st)
            ELSE IF sc.skip THEN Pass(sc.st)
            ELSE ImageProductCheck(sc.st, img, isStrict)
    IN IF ct \notin DOMAIN st.md.structure THEN err("invalid_content_type")
       ELSE IF img.name \notin Range(st.md.structure[ct])
       THEN err("not_found_in_folder")
       ELSE IF Exists(fs, ct, img.name) /\ FileOf(fs, ct, img.name)[3] = 0
       THEN err("failed_to_verify_dimensions")
       ELSE IF Exists(fs, ct, img.name)
               /\ FileOf(fs, ct, img.name)[3] # img.dimensions
       THEN err("dimensions_mismatch")
       ELSE AfterSettings(ImageSettingsCheck(st, img, isStrict))

RECURSIVE ImagesLoop(_, _, _, _)
ImagesLoop(st, i, fs, isStrict) ==
    IF i > Len(st.md.images) THEN Pass(st)
    ELSE LET AfterImage(r) ==
                 IF r.ok THEN ImagesLoop(r.st, i + 1, fs, isStrict) ELSE r
         IN AfterImage(ImageCheck(st, st.md.images[i], fs, isStrict))

\* MetadataValidator._validate_images
_validate_images(st, fs, isStrict) ==
    LET image_names == [i \in 1..Len(st.md.images) |-> st.md.images[i].name]
    IN IF ~IsSorted(image_names)
       THEN Fail(add_error(st, Msg("images_not_sorted", "", <<>>, 0, 0)))
       ELSE ImagesLoop(st, 1, fs, isStrict)

\* MetadataValidator._validate_untagged
_validate_untagged(st, fs, isStrict) ==
    LET untagged == st.md.untagged
        m == Msg("untagged_images", "", <<>>, Len(untagged), 0)
    IN IF ~NoDup(untagged)
       THEN Fail(add_error(st, Msg("duplicate_untagged", "", <<>>, 0, 0)))
       ELSE IF \E i \in 1..Len(untagged) : ~Exists(fs, BASE, untagged[i])
       THEN Fail(add_error(st, Msg("untagged_not_in_base", "", <<>>, 0, 0)))
       ELSE IF isStrict /\ untagged # <<>>
       THEN Fail(add_error(st, Msg("strict_untagged_not_allowed", "", <<>>, 0, 0)))
       ELSE IF untagged # <<>> THEN Pass(add_warning(st, m, m))
       ELSE Pass(st)

\* GroupsDefect that does not compare a group with the groups before it
RECURSIVE GroupsDefect_NoOverlapCheck(_, _, _, _)
GroupsDefect_NoOverlapCheck(groups, seen_products, known, valid) ==
    IF groups = <<>> THEN "none"
    ELSE LET key == Head(groups).key
             products == GroupProducts(key)
         IN IF key = CONTENT
            THEN GroupsDefect_NoOverlapCheck(Tail(groups), seen_products, known, valid)
            ELSE IF ~Bracketed(key) THEN "invalid_group_format"
            ELSE IF known /\ (products \ valid) \ {ALL} # {}
            THEN "invalid_products"
            ELSE IF Head(groups).value # Null
                    /\ ~validate_settings(Head(groups).value)
            THEN "group_settings_invalid"
            ELSE GroupsDefect_NoOverlapCheck(Tail(groups), seen_products, known, valid)

\* _validate_settings, lines 524-566: the first defect among the group keys
\* of one content type, scanning them in dict order.
RECURSIVE GroupsDefect(_, _, _, _)
GroupsDefect(groups, seen_products, known, valid) ==
    IF groups = <<>> THEN "none"
    ELSE LET key == Head(groups).key
             products == GroupProducts(key)
         IN IF key = CONTENT
            THEN GroupsDefect(Tail(groups), seen_products, known, valid)
            ELSE IF ~Bracketed(key) THEN "invalid_group_format"
            ELSE IF seen_products \cap products # {} THEN "duplicate_products"
            ELSE IF known /\ (products \ valid) \ {ALL} # {}
            THEN "invalid_products"
            ELSE IF Head(groups).value # Null
                    /\ ~validate_settings(Head(groups).value)
            THEN "group_settings_invalid"
            ELSE GroupsDefect(Tail(groups), seen_products \cup products,
                              known, valid)

\* _validate_settings, lines 492-566: the first defect of one content type
SettingsDefect(md, ct) ==
    IF ct \notin Range(md.content_types) THEN "invalid_content_type"
    ELSE IF ~HasKey(md.settings[ct], CONTENT) THEN "missing_content_field"
    ELSE IF ValueOf(md.settings[ct], CONTENT) # Null
            /\ ~validate_settings(ValueOf(md.settings[ct], CONTENT))
    THEN "content_settings_invalid"
    ELSE GroupsDefect(md.settings[ct], {}, ct \in DOMAIN md.products,
             IF ct \in DOMAIN md.products THEN ProductNames(md.products[ct])
             ELSE {})

\* MetadataValidator._validate_settings
_validate_settings(st) ==
    LET bad == SelectSeq(DictKeys(st.md.settings),
                         LAMBDA ct : SettingsDefect(st.md, ct) # "none")
    IN IF bad # <<>>
       THEN Fail(add_error(st, Msg(SettingsDefect(st.md, Head(bad)), Head(bad),
                                   <<>>, 0, 0)))
       ELSE Pass(st)

\* ActualCount without the second pass that adds the "all" images
ActualCount_DirectOnly(md, ct, product_name) ==
    IF Truthy(product_name) /\ product_name # ALL
    THEN DirectCount(md, ct, product_name) ELSE 0

\* _validate_product_counts, lines 580-603: the count the validator stores
ActualCount(md, ct, product_name) ==
    (IF Truthy(product_name) /\ product_name # ALL
     THEN DirectCount(md, ct, product_name) ELSE 0)
    + DirectCount(md, ct, ALL)

\* ReconcileCounts that warns about a stored count but does not rewrite it
RECURSIVE ReconcileCounts_KeepStored(_, _)
ReconcileCounts_KeepStored(st, pairs) ==
    IF pairs = <<>> THEN st
    ELSE LET ct == Head(pairs).ct
             product_info == st.md.products[ct][Head(pairs).idx]
             stored_count == product_info.current_count
             actual_count == ActualCount(st.md, ct, product_info.name)
             msg == Msg("incorrect_count", ct, product_info.name,
                        stored_count, actual_count)
         IN ReconcileCounts_KeepStored(
                IF stored_count # actual_count THEN add_warning(st, msg, msg)
                ELSE st,
                Tail(pairs))

\* _validate_product_counts, lines 595-612, over the (content type, product)
\* pairs in order
RECURSIVE ReconcileCounts(_, _)
ReconcileCounts(st, pairs) ==
    IF pairs = <<>> THEN st
    ELSE LET ct == Head(pairs).ct
             idx == Head(pairs).idx
             product_info == st.md.products[ct][idx]
             stored_count == product_info.current_count
             actual_count == ActualCount(st.md, ct, product_info.name)
             st1 == [st EXCEPT !.md.products[ct][idx].current_count = actual_count]
             msg == Msg("incorrect_count", ct, product_info.name,
                        stored_count, actual_count)
         IN ReconcileCounts(
                IF stored_count # actual_count THEN add_warning(st1, msg, msg)
                ELSE st1,
                Tail(pairs))

\* MetadataValidator._validate_product_counts
_validate_product_counts(st) ==
    Pass(ReconcileCounts(st, ProductPairs(st.md.products, DictKeys(st.md.products))))

\* The validators of validate(), in the order of its list (lines 44-52)
VALIDATORS ==
    <<"_validate_content_types", "_validate_products", "_validate_structure",
      "_validate_images", "_validate_untagged", "_validate_settings",
      "_validate_product_counts">>

RunValidator(v, st, exp, fs, isStrict) ==
    CASE v = "_validate_content_types" ->
            _validate_content_types(st, exp.content_types)
      [] v = "_validate_products" -> _validate_products(st, exp.products, isStrict)
      [] v = "_validate_structure" -> _validate_structure(st, fs)
      [] v = "_validate_images" -> _validate_images(st, fs, isStrict)
      [] v = "_validate_untagged" -> _validate_untagged(st, fs, isStrict)
      [] v = "_validate_settings" -> _validate_settings(st)
      [] v = "_validate_product_counts" -> _validate_product_counts(st)

\* ValidatorsLoop that leaves at the first failing validator in either mode
RECURSIVE ValidatorsLoop_StopAtFirstFailure(_, _, _, _, _, _, _)
ValidatorsLoop_StopAtFirstFailure(vs, st, valid, ran, exp, fs, isStrict) ==
    IF vs = <<>> THEN [returned |-> FALSE, valid |-> valid, st |-> st, ran |-> ran]
    ELSE LET ran1 == Append(ran, Head(vs))
             AfterValidator(r) ==
                 IF ~r.ok
                 THEN [returned |-> TRUE, valid |-> FALSE, st |-> r.st,
                       ran |-> ran1]
                 ELSE ValidatorsLoop_StopAtFirstFailure(Tail(vs), r.st, valid,
                                                        ran1, exp, fs, isStrict)
         IN AfterValidator(RunValidator(Head(vs), st, exp, fs, isStrict))

\* validate(), lines 54-59: the loop over the validators.  Returns returned
\* = TRUE when the loop left validate() early.
RECURSIVE ValidatorsLoop(_, _, _, _, _, _, _)
ValidatorsLoop(vs, st, valid, ran, exp, fs, isStrict) ==
    IF vs = <<>> THEN [returned |-> FALSE, valid |-> valid, st |-> st, ran |-> ran]
    ELSE LET ran1 == Append(ran, Head(vs))
             AfterValidator(r) ==
                 IF ~r.ok /\ isStrict
                 THEN [returned |-> TRUE, valid |-> FALSE, st |-> r.st,
                       ran |-> ran1]
                 ELSE ValidatorsLoop(Tail(vs), r.st, valid /\ r.ok, ran1,
                                     exp, fs, isStrict)
         IN AfterValidator(RunValidator(Head(vs), st, exp, fs, isStrict))

\* validate() that records the key-order error and goes on to the checks
validate_IgnoreKeyOrder(md, exp, fs, isStrict) ==
    LET st0 == [md |-> md, errors |-> <<>>, warnings |-> <<>>, seen |-> {}]
        st1 == IF md.keys # REQUIRED_KEYS_ORDER
               THEN add_error(st0, Msg("keys_not_in_order", "", <<>>, 0, 0))
               ELSE st0
        out(result, st, ran) ==
            [result |-> result, md |-> st.md, errors |-> st.errors,
             warnings |-> st.warnings, ran |-> ran]
        AfterLoop(loop) ==
            IF loop.returned THEN out(FALSE, loop.st, loop.ran)
            ELSE IF isStrict /\ loop.st.warnings # <<>>
            THEN out(FALSE, [loop.st EXCEPT !.errors = @ \o loop.st.warnings],
                     loop.ran)
            ELSE out(loop.valid /\ md.keys = REQUIRED_KEYS_ORDER, loop.st,
                     loop.ran)
    IN AfterLoop(ValidatorsLoop(VALIDATORS, st1, TRUE, <<>>, exp, fs, isStrict))

\* MetadataValidator.validate.  Returns the verdict, the data as the call
\* leaves it, errors, warnings and the validators that ran.
validate(md, exp, fs, isStrict) ==
    LET st0 == [md |-> md, errors |-> <<>>, warnings |-> <<>>, seen |-> {}]
        out(result, st, ran) ==
            [result |-> result, md |-> st.md, errors |-> st.errors,
             warnings |-> st.warnings, ran |-> ran]
        AfterLoop(loop) ==
            IF loop.returned THEN out(FALSE, loop.st, loop.ran)
            ELSE IF isStrict /\ loop.st.warnings # <<>>
            THEN out(FALSE, [loop.st EXCEPT !.errors = @ \o loop.st.warnings],
                     loop.ran)
            ELSE IF ~loop.valid THEN out(FALSE, loop.st, loop.ran)
            ELSE out(TRUE, loop.st, loop.ran)
    IN IF md.keys # REQUIRED_KEYS_ORDER
       THEN out(FALSE, add_error(st0, Msg("keys_not_in_order", "", <<>>, 0, 0)), <<>>)
       ELSE AfterLoop(ValidatorsLoop(VALIDATORS, st0, TRUE, <<>>, exp, fs, isStrict))

-----------------------------------------------------------------------------
(* Generator *)

\* Generator._should_prevent_duplicates
RECURSIVE FirstPrevent(_, _)
FirstPrevent(prods, product) ==
    IF prods = <<>> THEN FALSE
    ELSE IF Head(prods).name = product THEN Head(prods).prevent_duplicates
         ELSE FirstPrevent(Tail(prods), product)

_should_prevent_duplicates(md, content_type, product) ==
    FirstPrevent(md.products[content_type], Strip(product))

\* The product recorded on an image of the store
ProductOfImage(md, img) == ImageOf(md, img).product

\* _get_available_images, lines 216-244: the list built for the wildcard
RECURSIVE AvailableForAll(_, _, _, _, _)
AvailableForAll(md, content_type, prods, used_images, allow_all_duplicates) ==
    IF prods = <<>> THEN <<>>
    ELSE LET prod_info == Head(prods)
             all_images == md.structure[content_type]
             matching_images ==
                 SelectSeq(all_images, LAMBDA img :
                     ProductOfImage(md, img) = prod_info.name)
             unused ==
                 SelectSeq(matching_images, LAMBDA img :
                     img \notin Range(used_images[content_type][prod_info.name]))
             rest == AvailableForAll(md, content_type, Tail(prods), used_images,
                                     allow_all_duplicates)
         IN IF prod_info.prevent_duplicates /\ ~allow_all_duplicates THEN rest
            ELSE IF prod_info.prevent_duplicates THEN unused \o rest
            ELSE matching_images \o rest

\* _get_available_images whose wildcard pool is every image of the folder
_get_available_images_Unfiltered(md, content_type, product0, used_images, allow_all_duplicates) ==
    LET product == IF Truthy(product0) THEN Strip(product0) ELSE product0
        all_images == md.structure[content_type]
        available == SelectSeq(all_images, LAMBDA img :
                         ProductOfImage(md, img) = product)
    IN IF product = ALL THEN all_images
       ELSE IF _should_prevent_duplicates(md, content_type, product)
       THEN SelectSeq(available, LAMBDA img :
                img \notin Range(used_images[content_type][product]))
       ELSE available

\* Generator._get_available_images
_get_available_images(md, content_type, product0, used_images, allow_all_duplicates) ==
    LET product == IF Truthy(product0) THEN Strip(product0) ELSE product0
        all_images == md.structure[content_type]
        available == SelectSeq(all_images, LAMBDA img :
                         ProductOfImage(md, img) = product)
    IN IF product = ALL
       THEN AvailableForAll(md, content_type, md.products[content_type],
                            used_images, allow_all_duplicates)
       ELSE IF _should_prevent_duplicates(md, content_type, product)
       THEN SelectSeq(available, LAMBDA img :
                img \notin Range(used_images[content_type][product]))
       ELSE available

\* _get_image_settings, lines 346-355: the first group, in dict order, that
\* lists product and has settings; Null when there is none.
RECURSIVE FirstGroupWithSettings(_, _)
FirstGroupWithSettings(groups, product) ==
    IF groups = <<>> THEN Null
    ELSE IF Head(groups).key # CONTENT
            /\ product \in GroupProducts(Head(groups).key)
            /\ Head(groups).value # Null
         THEN Head(groups).value
         ELSE FirstGroupWithSettings(Tail(groups), product)

\* _get_image_settings that uses the default template when the level the
\* image names has no settings
_get_image_settings_FallBack(md, content_type, product, image_name) ==
    LET image_data == ImageOf(md, image_name)
        settings_source == image_data.settings_source
        ct_settings == md.settings[content_type]
        found == FirstGroupWithSettings(ct_settings, product)
        return(b) == [raised |-> FALSE,
                      settings |-> IF b = Null THEN DEFAULT_TEMPLATE ELSE b]
    IN IF settings_source = "custom" THEN return(image_data.settings)
       ELSE IF settings_source = "content" /\ HasKey(ct_settings, CONTENT)
       THEN return(ValueOf(ct_settings, CONTENT))
       ELSE IF settings_source = "product" THEN return(found)
       ELSE return(DEFAULT_TEMPLATE)

\* Generator._get_image_settings
_get_image_settings(md, content_type, product, image_name) ==
    LET image_data == ImageOf(md, image_name)
        settings_source == image_data.settings_source
        ct_settings == md.settings[content_type]
        found == FirstGroupWithSettings(ct_settings, product)
        raise == [raised |-> TRUE, settings |-> Null]
        return(b) == [raised |-> FALSE, settings |-> b]
    IN IF settings_source = "default" THEN return(DEFAULT_TEMPLATE)
       ELSE IF settings_source = "custom"
       THEN IF image_data.settings = Null THEN raise
            ELSE return(image_data.settings)
       ELSE IF settings_source = "content"
       THEN IF ~HasKey(ct_settings, CONTENT) \/ ValueOf(ct_settings, CONTENT) = Null
            THEN raise
            ELSE return(ValueOf(ct_settings, CONTENT))
       ELSE IF settings_source = "product"
       THEN IF found = Null THEN raise ELSE return(found)
       ELSE raise

\* generate(), lines 102-108: the tracking dict of a post
NewUsedImages(md) ==
    [content_type \in Range(md.content_types) |->
        [name \in ProductNames(md.products[content_type]) |-> <<>>]]

-----------------------------------------------------------------------------
(* Stores the program can hold *)

Product(name, prevent_duplicates, min_occurrences, current_count) ==
    [name |-> name, prevent_duplicates |-> prevent_duplicates,
     min_occurrences |-> min_occurrences, current_count |-> current_count]

Image(name, content_type, dimensions, product, settings_source, settings) ==
    [name |-> name, content_type |-> content_type, dimensions |-> dimensions,
     product |-> product, settings_source |-> settings_source,
     settings |-> settings]

Entry(key, value) == [key |-> key, value |-> value]

\* "[p, q]", the group key MetadataGenerator._generate_settings writes
GROUP_PQ == <<"[", "p", ",", " ", "q", "]">>
GROUP_P == <<"[", "p", "]">>
GROUP_Q == <<"[", "q", "]">>
\* "[p,q]", a group key written by hand, without the space
GROUP_PQ_TIGHT == <<"[", "p", ",", "q", "]">>
\* "[z]", a group of a product that is not declared
GROUP_Z == <<"[", "z", "]">>

\* structure[ct]["images"] as MetadataGenerator._generate_structure lists a
\* folder: the sorted names of the images of that folder
StructureOf(imgs) ==
    [ct \in Range(ContentTypes) |->
        LET mine == SelectSeq(imgs, LAMBDA im : im.content_type = ct)
        IN Sorted([i \in 1..Len(mine) |-> mine[i].name])]

\* MetadataGenerator.generate: the sections in the order its sub-generators
\* assign them to the empty dict
GENERATED_SECTIONS ==
    <<"content_types", "products", "structure", "images", "untagged", "settings">>

RECURSIVE AssignAll(_, _)
AssignAll(keys, sections) ==
    IF sections = <<>> THEN keys
    ELSE AssignAll(AssignKey(keys, Head(sections)), Tail(sections))

\* list(metadata.keys()) after MetadataGenerator.generate
GeneratedKeys == AssignAll(<<>>, GENERATED_SECTIONS)

Store(products, imgs, untagged, settings) ==
    [keys |-> GeneratedKeys,
     content_types |-> ContentTypes,
     products |-> products,
     structure |-> StructureOf(imgs),
     images |-> SortImages(imgs),
     untagged |-> untagged,
     settings |-> settings]

\* The store with every current_count set to the reconciled count
Reconciled(md) ==
    [md EXCEPT !.products =
        [ct \in DOMAIN md.products |->
            [i \in 1..Len(md.products[ct]) |->
                [md.products[ct][i] EXCEPT !.current_count =
                    ActualCount(md, ct, md.products[ct][i].name)]]]]

\* The folders and files of a store whose images all exist with size 1,
\* plus the given files of the base folder
FilesOf(md, baseFiles) ==
    {<<BASE, ct, -1>> : ct \in Range(md.content_types)}
    \cup {<<md.images[i].content_type, md.images[i].name, 1>> : i \in 1..Len(md.images)}
    \cup baseFiles

NoCall == [called |-> FALSE, result |-> FALSE, ran |-> <<>>,
           errors |-> <<>>, warnings |-> <<>>]
Idle == [status |-> "idle"]
NoOp == [op |-> "init", name |-> "", ct |-> "", product |-> NoneV,
         fields |-> {}, raised |-> FALSE, level |-> "", out |-> Null]

Expected(md) ==
    [content_types |-> md.content_types,
     products |-> [ct \in DOMAIN md.products |->
                     [i \in 1..Len(md.products[ct]) |-> md.products[ct][i].name]]]

-----------------------------------------------------------------------------
(* MetadataGenerator *)

\* sorted(set(prods)) of product names
SortedProducts(prods) ==
    CHOOSE s \in [1..Cardinality(Range(prods)) -> Range(prods)] :
        /\ Range(s) = Range(prods)
        /\ \A i \in 1..(Len(s) - 1) : ProductRank(s[i]) < ProductRank(s[i + 1])

\* ", ".join(names)
RECURSIVE JoinCommaSpace(_)
JoinCommaSpace(names) ==
    IF names = <<>> THEN <<>>
    ELSE IF Len(names) = 1 THEN Head(names)
    ELSE Head(names) \o <<",", " ">> \o JoinCommaSpace(Tail(names))

\* MetadataGenerator._generate_products: min_occurrences is what the caption
\* source gives, 0 when it names none
_generate_products(products) ==
    [ct \in DOMAIN products |->
        [i \in 1..Len(products[ct]) |-> Product(products[ct][i], FALSE, 0, 0)]]

\* MetadataGenerator._generate_structure: the sorted image files of each
\* content folder
_generate_structure(content_types, fs) ==
    [ct \in Range(content_types) |->
        SelectSeq(ImageNames, LAMBDA n : Exists(fs, ct, n))]

\* MetadataGenerator._generate_images: one record per listed image, sorted by
\* name
_generate_images(structure, fs) ==
    LET listed == SelectSeq(ImageNames, LAMBDA n :
                      \E ct \in DOMAIN structure : n \in Range(structure[ct]))
        FolderOf(n) == CHOOSE ct \in DOMAIN structure : n \in Range(structure[ct])
    IN [i \in 1..Len(listed) |->
           Image(listed[i], FolderOf(listed[i]),
                 FileOf(fs, FolderOf(listed[i]), listed[i])[3],
                 NoneV, "default", Null)]

\* MetadataGenerator._generate_untagged: the sorted image files of the base
\* folder that no content folder lists
_generate_untagged(structure, fs) ==
    SelectSeq(ImageNames, LAMBDA n :
        /\ Exists(fs, BASE, n)
        /\ \A ct \in DOMAIN structure : n \notin Range(structure[ct]))

\* MetadataGenerator._generate_settings: per content type the content entry
\* and one group of all its products, both without settings
_generate_settings(content_types, products) ==
    [ct \in Range(content_types) |->
        <<Entry(CONTENT, Null),
          Entry(<<"[">> \o JoinCommaSpace(
                    [i \in 1..Len(products[ct]) |-> products[ct][i].name])
                \o <<"]">>, Null)>>]

\* Metadata.generate: the store MetadataGenerator.generate builds for the
\* sorted content types and the sorted, deduplicated product lists
generate(content_types, products, fs) ==
    LET content_types_list == SelectSeq(ContentTypes, LAMBDA ct : ct \in Range(content_types))
        products_dict == [ct \in DOMAIN products |-> SortedProducts(products[ct])]
        prods == _generate_products(products_dict)
        structure == _generate_structure(content_types_list, fs)
    IN [keys |-> GeneratedKeys,
        content_types |-> content_types_list,
        products |-> prods,
        structure |-> structure,
        images |-> _generate_images(structure, fs),
        untagged |-> _generate_untagged(structure, fs),
        settings |-> _generate_settings(content_types_list, prods)]

-----------------------------------------------------------------------------
(* Spec: the editor working on a loaded store *)

\* Settings as MetadataGenerator._generate_settings writes them
GeneratedSettings ==
    [ct \in Range(ContentTypes) |->
        IF ct = "hook" THEN <<Entry(CONTENT, Null), Entry(GROUP_PQ, Null)>>
        ELSE <<Entry(CONTENT, Null), Entry(GROUP_P, Null)>>]

DeclaredProducts ==
    [ct \in Range(ContentTypes) |->
        IF ct = "hook"
        THEN <<Product(P1, TRUE, 1, 0), Product(P2, FALSE, 0, 0)>>
        ELSE <<Product(P1, FALSE, 0, 0)>>]

Init ==
    /\ \E pa \in {NoneV, ALL, P1}, size \in {0, 1} :
         /\ metadata = Reconciled(Store(DeclaredProducts,
                <<Image("a.png", "hook", 1, pa, "default", Null)>>,
                <<"c.png">>, GeneratedSettings))
         /\ files = FilesOf(metadata, {<<BASE, "c.png", size>>})
    /\ disk = metadata
    /\ strict = FALSE
    /\ expected = Expected(metadata)
    /\ errors = <<>>
    /\ warnings = <<>>
    /\ vres = NoCall
    /\ prev = NoCall
    /\ gen = Idle
    /\ nops = 0
    /\ last = NoOp

\* The images the editor is asked about
EditorNames == {"a.png", "c.png"}

\* The partial updates callers pass to edit_image
EditData ==
    {[product |-> p] : p \in {NoneV, ALL, P1, P2}}
    \cup {[settings_source |-> "custom", settings |-> "s1"]}

EditImage ==
    \E image_name \in EditorNames, data \in EditData :
        LET r == edit_image(metadata, image_name, data) IN
        /\ nops < MaxOps
        /\ nops' = nops + 1
        /\ metadata' = r.md
        /\ last' = [op |-> "edit_image", name |-> image_name, ct |-> "",
                    product |-> IF "product" \in DOMAIN data THEN data["product"]
                                ELSE NoneV,
                    fields |-> DOMAIN data, raised |-> r.raised, level |-> "", out |-> Null]
        /\ UNCHANGED <<files, disk, strict, expected, errors, warnings, vres,
                       prev, gen>>

UpdateImageProduct ==
    \E image_name \in EditorNames, content_type \in Range(ContentTypes),
       new_product \in {ALL, P1, P2} :
        LET r == update_image_product(metadata, image_name, content_type,
                                      new_product) IN
        /\ nops < MaxOps
        /\ nops' = nops + 1
        /\ metadata' = r.md
        /\ last' = [op |-> "update_image_product", name |-> image_name,
                    ct |-> content_type, product |-> new_product,
                    fields |-> {"product"}, raised |-> r.raised, level |-> "", out |-> Null]
        /\ UNCHANGED <<files, disk, strict, expected, errors, warnings, vres,
                       prev, gen>>

\* The calls of edit_settings: <<level, target, content_type>>
EditSettingsCalls ==
    {<<"content_type", "hook", "">>, <<"content_type", "hook", "hook">>,
     <<"custom", "a.png", "">>, <<"custom", "c.png", "">>,
     <<"product", P1, "hook">>, <<"product", P1, "">>}

\* The settings blobs callers pass to edit_settings
EditSettingsData == {"s1"}

EditSettings ==
    \E call \in EditSettingsCalls, data \in EditSettingsData :
        LET r == edit_settings(metadata, call[1], call[2], data, call[3]) IN
        /\ nops < MaxOps
        /\ nops' = nops + 1
        /\ metadata' = r.md
        /\ last' = [op |-> "edit_settings",
                    name |-> IF call[1] = "product" THEN "" ELSE call[2],
                    ct |-> call[3],
                    product |-> IF call[1] = "product" THEN call[2] ELSE NoneV,
                    fields |-> {"settings"}, raised |-> r.raised,
                    level |-> call[1], out |-> Null]
        /\ UNCHANGED <<files, disk, strict, expected, errors, warnings, vres,
                       prev, gen>>

\* The lists callers pass to edit_untagged
UntaggedLists == {<<>>, <<"c.png">>}

EditUntagged ==
    \E untagged \in UntaggedLists :
        /\ nops < MaxOps
        /\ nops' = nops + 1
        /\ metadata' = edit_untagged(metadata, untagged)
        /\ last' = [NoOp EXCEPT !.op = "edit_untagged"]
        /\ UNCHANGED <<files, disk, strict, expected, errors, warnings, vres,
                       prev, gen>>

MoveUntaggedImage ==
    \E image_name \in EditorNames, target \in Range(ContentTypes) :
        LET r == move_untagged_image(metadata, files, disk, image_name, target) IN
        /\ nops < MaxOps
        /\ nops' = nops + 1
        /\ metadata' = r.md
        /\ files' = r.files
        /\ disk' = r.disk
        /\ last' = [op |-> "move_untagged_image", name |-> image_name,
                    ct |-> target, product |-> NoneV, fields |-> {},
                    raised |-> r.raised, level |-> "", out |-> Null]
        /\ UNCHANGED <<strict, expected, errors, warnings, vres, prev, gen>>

Next == EditImage \/ EditUntagged \/ UpdateImageProduct \/ EditSettings
        \/ MoveUntaggedImage

Spec == Init /\ [][Next]_vars

-----------------------------------------------------------------------------
(* SpecV: validate() called, repeatedly, on data loaded from metadata.json *)

\* The settings sections of the loaded files: as generated, with a product
\* in two groups, split into one group per product, with a key that is not
\* bracketed, with a group of an undeclared product, and with a group key
\* written without the space after the comma.
SettingsVariants ==
    {<<Entry(CONTENT, Null), Entry(GROUP_PQ, "s1")>>,
     <<Entry(CONTENT, Null), Entry(GROUP_P, "s1"), Entry(GROUP_PQ, Null)>>,
     <<Entry(CONTENT, "s2"), Entry(GROUP_P, "s1"), Entry(GROUP_Q, Null)>>,
     <<Entry(CONTENT, Null), Entry(P1, "s1")>>,
     <<Entry(CONTENT, Null), Entry(GROUP_P, "s1"), Entry(GROUP_Z, Null)>>,
     <<Entry(CONTENT, Null), Entry(GROUP_PQ_TIGHT, "s1")>>}

WRONG_KEYS_ORDER ==
    <<"products", "content_types", "structure", "images", "untagged", "settings">>

LoadedData(pa, sa, pb, un, pd, mn, cnt, sv, keys) ==
    [Store([DeclaredProducts EXCEPT !["hook"][1] = Product(P1, pd, mn, cnt)],
           <<Image("a.png", "hook", 1, pa, sa,
                   IF sa = "custom" THEN "s1" ELSE Null),
             Image("b.png", "hook", 1, pb, "default", Null)>>,
           un,
           [GeneratedSettings EXCEPT !["hook"] = sv])
     EXCEPT !.keys = keys]

InitV ==
    /\ \E pa \in {NoneV, ALL, P1, P2, BOGUS}, sa \in {"default", "custom", "product"},
          pb \in {NoneV, ALL, P1}, un \in {<<>>, <<"c.png">>},
          pm \in {<<FALSE, 2>>, <<TRUE, 0>>, <<TRUE, 1>>, <<TRUE, 2>>},
          cnt \in 0..2, sv \in SettingsVariants,
          keys \in {REQUIRED_KEYS_ORDER, WRONG_KEYS_ORDER},
          ects \in {ContentTypes, <<"hook">>} :
         /\ metadata = LoadedData(pa, sa, pb, un, pm[1], pm[2], cnt, sv, keys)
         /\ files = FilesOf(metadata, {<<BASE, un[i], 1>> : i \in 1..Len(un)})
         /\ expected = [Expected(metadata) EXCEPT !.content_types = ects]
    /\ disk = metadata
    /\ strict \in BOOLEAN
    /\ errors = <<>>
    /\ warnings = <<>>
    /\ vres = NoCall
    /\ prev = NoCall
    /\ gen = Idle
    /\ nops = 0
    /\ last = NoOp

Validate ==
    /\ \E r \in {validate(metadata, expected, files, strict)} :
          /\ metadata' = r.md
          /\ errors' = r.errors
          /\ warnings' = r.warnings
          /\ vres' = [called |-> TRUE, result |-> r.result, ran |-> r.ran,
                      errors |-> r.errors, warnings |-> r.warnings]
    /\ prev' = vres
    /\ last' = [NoOp EXCEPT !.op = "validate"]
    /\ UNCHANGED <<files, disk, strict, expected, gen, nops>>

NextV == Validate

SpecV == InitV /\ [][NextV]_vars

-----------------------------------------------------------------------------
(* SpecL: the life of a store under Metadata.load: generated when there is *)
(* none, validated when there is one, then read through the editor         *)

InitL ==
    /\ \E pa \in {NoneV, P1}, sa \in {"default", "product"},
          un \in {<<>>, <<"c.png">>}, cnt \in 1..2, sv \in SettingsVariants :
         /\ metadata = LoadedData(pa, sa, P1, un, FALSE, 0, cnt, sv,
                                  REQUIRED_KEYS_ORDER)
         /\ files = FilesOf(metadata, {<<BASE, un[i], 1>> : i \in 1..Len(un)})
         /\ expected = Expected(metadata)
    /\ disk = metadata
    /\ strict \in BOOLEAN
    /\ errors = <<>>
    /\ warnings = <<>>
    /\ vres = NoCall
    /\ prev = NoCall
    /\ gen = Idle
    /\ nops = 0
    /\ last = NoOp

\* The product lists of the caption source, per content type
ProductConfigs ==
    {[ct \in Range(ContentTypes) |-> IF ct = "hook" THEN h ELSE c] :
        h \in {<<>>, <<P1>>, <<P2, P1>>}, c \in {<<>>, <<P1>>}}

\* Metadata.generate: a new store built from the folders and written to
\* metadata.json; no validate() call has seen it
MetadataGenerate ==
    /\ \E products \in ProductConfigs :
          /\ metadata' = generate(ContentTypes, products, files)
          /\ expected' = [content_types |-> ContentTypes, products |-> products]
    /\ disk' = metadata'
    /\ errors' = <<>>
    /\ warnings' = <<>>
    /\ vres' = NoCall
    /\ prev' = NoCall
    /\ last' = [NoOp EXCEPT !.op = "generate"]
    /\ UNCHANGED <<files, strict, gen, nops>>

\* The calls of get_settings: <<level, target, content_type>>
GetSettingsCalls ==
    {<<"product", p, ct>> : p \in {P1, P2, BOGUS, NoneV}, ct \in {"hook", "cta", ""}}
    \cup {<<"content_type", "hook", "">>, <<"custom", "a.png", "">>,
          <<"default", NoneV, "">>}

\* MetadataEditor.get_settings called on the store a successful load handed
\* to the editor
GetSettings ==
    /\ vres.called /\ vres.result
    /\ \E call \in GetSettingsCalls :
          \E r \in {get_settings(metadata, call[1], call[2], call[3])} :
              last' = [op |-> "get_settings",
                       name |-> IF call[1] \in {"content_type", "custom"}
                                THEN call[2] ELSE "",
                       ct |-> call[3],
                       product |-> IF call[1] = "product" THEN call[2] ELSE NoneV,
                       fields |-> {}, raised |-> r.raised, level |-> call[1],
                       out |-> r.settings]
    /\ UNCHANGED <<metadata, files, disk, strict, expected, errors, warnings,
                   vres, prev, gen, nops>>

NextL == MetadataGenerate \/ Validate \/ GetSettings

SpecL == InitL /\ [][NextL]_vars

-----------------------------------------------------------------------------
(* SpecG: Generator.generate running over the captions *)

Slot(product, content) == [product |-> product, content |-> content]

\* Rows of the captions table: (product, text) per content column
Rows ==
    {<<Slot(P1, "text"), Slot(P1, "text"), Slot(P1, "text")>>,
     <<Slot(P1, "text"), Slot(ALL, "text"), Slot(ALL, "text")>>,
     <<Slot(P2, "text"), Slot(P1, ""), Slot(P2, "text")>>}

\* headers_map: the content type of each column pair
HeaderMaps == {<<"hook", "hook", "hook">>, <<"hook", "cta", "hook">>}

GenSettings ==
    [ct \in Range(ContentTypes) |->
        IF ct = "hook"
        THEN <<Entry(CONTENT, Null), Entry(GROUP_P, "s1"), Entry(GROUP_Q, Null)>>
        ELSE <<Entry(CONTENT, "s2"), Entry(GROUP_P, Null)>>]

\* settings_source and settings of the image whose settings vary
ImageSettingsInputs ==
    {<<"default", Null>>, <<"product", Null>>, <<"content", Null>>,
     <<"custom", Null>>, <<"custom", "s3">>}

InitG ==
    /\ \E pa \in {P1, P2}, pb \in {P1, P2, ALL, NoneV}, sa \in ImageSettingsInputs,
          pdp \in BOOLEAN, pdq \in BOOLEAN :
         metadata = Reconciled(Store(
             [ct \in Range(ContentTypes) |->
                 IF ct = "hook"
                 THEN <<Product(P1, pdp, 0, 0), Product(P2, pdq, 0, 0)>>
                 ELSE <<Product(P1, FALSE, 0, 0)>>],
             <<Image("a.png", "hook", 1, pa, sa[1], sa[2]),
               Image("b.png", "hook", 1, pb, "default", Null),
               Image("c.png", "cta", 1, P1, "content", Null)>>,
             <<>>, GenSettings))
    /\ files = FilesOf(metadata, {})
    /\ disk = metadata
    /\ strict = TRUE
    /\ expected = Expected(metadata)
    /\ errors = <<>>
    /\ warnings = <<>>
    /\ vres = NoCall
    /\ prev = NoCall
    /\ \E hm \in HeaderMaps, r1 \in Rows, r2 \in Rows :
         gen = [status |-> "idle", headers_map |-> hm, captions |-> <<r1, r2>>]
    /\ nops = 0
    /\ last = NoOp

\* generate(), lines 50-88: the call, up to the first post
GenStart ==
    /\ gen.status = "idle"
    /\ \E variations \in 1..MaxVariations, allow_all_duplicates \in BOOLEAN :
         gen' = [status |-> "post", headers_map |-> gen.headers_map,
                 captions |-> gen.captions, variations |-> variations,
                 allow_all_duplicates |-> allow_all_duplicates,
                 variation_num |-> 1, post_num |-> 1, idx |-> 1,
                 used_images |-> NewUsedImages(metadata), picks |-> <<>>,
                 settings |-> Null, error |-> "none", error_content_type |-> "",
                 error_product |-> NoneV, error_image |-> ""]
    /\ last' = [NoOp EXCEPT !.op = "generate"]
    /\ UNCHANGED <<metadata, files, disk, strict, expected, errors, warnings,
                   vres, prev, nops>>

\* BeginPost that keeps the tracking dict of the post before
BeginPost_KeepUsedImages(g, md) ==
    [g EXCEPT !.status = "slot", !.idx = 1, !.picks = <<>>]

\* generate(), lines 94-108: the locals of the run when a post begins, with
\* a fresh tracking dict
BeginPost(g, md) ==
    [g EXCEPT !.status = "slot", !.idx = 1,
              !.used_images = NewUsedImages(md), !.picks = <<>>]

GenBeginPost ==
    /\ gen.status = "post"
    /\ gen' = BeginPost(gen, metadata)
    /\ last' = [NoOp EXCEPT !.op = "begin_post"]
    /\ UNCHANGED <<metadata, files, disk, strict, expected, errors, warnings,
                   vres, prev, nops>>

CurrentRow == gen.captions[gen.post_num]

\* generate(), lines 118-120: a column without text is skipped
GenSkipEmpty ==
    /\ gen.status = "slot"
    /\ gen.idx <= Len(CurrentRow)
    /\ CurrentRow[gen.idx].content = ""
    /\ gen' = [gen EXCEPT !.idx = @ + 1]
    /\ last' = [NoOp EXCEPT !.op = "skip_empty"]
    /\ UNCHANGED <<metadata, files, disk, strict, expected, errors, warnings,
                   vres, prev, nops>>

\* AfterSelection that never records the image in used_images
AfterSelection_NoTracking(g, md, content_type, product, selected_image) ==
    LET g2 == [g EXCEPT !.picks = Append(@,
                  [idx |-> g.idx, content_type |-> content_type,
                   product |-> product, image |-> selected_image])]
        image_settings == _get_image_settings(md, content_type, product,
                                              selected_image)
    IN IF image_settings.raised
       THEN [g2 EXCEPT !.status = "failed", !.error = "settings",
                       !.error_image = selected_image]
       ELSE [g2 EXCEPT !.settings = image_settings.settings, !.idx = @ + 1]

\* Generator._generate_single_image for the current column: the state of
\* the run after it selected selected_image (any element of the pool
\* random.choice may return).
AfterSelection(g, md, content_type, product, selected_image) ==
    LET g1 == IF _should_prevent_duplicates(md, content_type, product)
              THEN [g EXCEPT !.used_images[content_type][product] =
                                Append(@, selected_image)]
              ELSE g
        g2 == [g1 EXCEPT !.picks = Append(@,
                  [idx |-> g.idx, content_type |-> content_type,
                   product |-> product, image |-> selected_image])]
        image_settings == _get_image_settings(md, content_type, product,
                                              selected_image)
    IN IF image_settings.raised
       THEN [g2 EXCEPT !.status = "failed", !.error = "settings",
                       !.error_image = selected_image]
       ELSE [g2 EXCEPT !.settings = image_settings.settings, !.idx = @ + 1]

\* NoAvailableImages that logs the empty pool and goes on to the next column
NoAvailableImages_Continue(g, content_type, product) ==
    [g EXCEPT !.idx = @ + 1]

\* _generate_single_image, lines 169-170: the ValueError for an empty pool,
\* which names the content type and the product and ends generate()
NoAvailableImages(g, content_type, product) ==
    [g EXCEPT !.status = "failed", !.error = "no_available_images",
              !.error_content_type = content_type, !.error_product = product]

\* StoreAfterSelection that counts the use of the image on its product
StoreAfterSelection_CountUse(md, content_type, selected_image) == _update_product_count(md, content_type, ProductOfImage(md, selected_image), TRUE)

\* The store as _generate_single_image leaves it: the call reads
\* self.metadata.data (structure, images, products, settings) and assigns
\* to none of it
StoreAfterSelection(md, content_type, selected_image) == md

GenerateSingleImage ==
    /\ gen.status = "slot"
    /\ gen.idx <= Len(CurrentRow)
    /\ CurrentRow[gen.idx].content # ""
    /\ LET content_type == gen.headers_map[gen.idx]
           product == CurrentRow[gen.idx].product
           available_images ==
               _get_available_images(metadata, content_type, product,
                                     gen.used_images, gen.allow_all_duplicates)
       IN IF available_images = <<>>
          THEN /\ gen' = NoAvailableImages(gen, content_type, product)
               /\ metadata' = metadata
          ELSE \E selected_image \in Range(available_images) :
                  /\ gen' = AfterSelection(gen, metadata, content_type, product,
                                           selected_image)
                  /\ metadata' = StoreAfterSelection(metadata, content_type,
                                                     selected_image)
    /\ last' = [NoOp EXCEPT !.op = "_generate_single_image"]
    /\ UNCHANGED <<files, disk, strict, expected, errors, warnings, vres, prev,
                   nops>>

\* generate(), lines 88-141: after the last column, the next post, the
\* next variation or the end of the run
GenEndPost ==
    /\ gen.status = "slot"
    /\ gen.idx > Len(CurrentRow)
    /\ gen' = IF gen.post_num < Len(gen.captions)
              THEN [gen EXCEPT !.status = "post", !.post_num = @ + 1]
              ELSE IF gen.variation_num < gen.variations
              THEN [gen EXCEPT !.status = "post", !.post_num = 1,
                               !.variation_num = @ + 1]
              ELSE [gen EXCEPT !.status = "done"]
    /\ last' = [NoOp EXCEPT !.op = "end_post"]
    /\ UNCHANGED <<metadata, files, disk, strict, expected, errors, warnings,
                   vres, prev, nops>>

NextG == GenStart \/ GenBeginPost \/ GenSkipEmpty \/ GenerateSingleImage
         \/ GenEndPost

SpecG == InitG /\ [][NextG]_vars

-----------------------------------------------------------------------------
(* Properties *)

\* current_count of every product equals the images of its content type
\* assigned the product plus those assigned "all"
CountsMatch(md) ==
    \A ct \in DOMAIN md.products : \A i \in 1..Len(md.products[ct]) :
        md.products[ct][i].current_count =
            DirectCount(md, ct, md.products[ct][i].name) + DirectCount(md, ct, ALL)

StrictlySorted(s) == \A i \in 1..(Len(s) - 1) : NameRank(s[i]) < NameRank(s[i + 1])

\* images keys, every structure list and untagged are sorted ascending
\* without duplicates
AllSorted(md) ==
    /\ StrictlySorted([i \in 1..Len(md.images) |-> md.images[i].name])
    /\ \A ct \in DOMAIN md.structure : StrictlySorted(md.structure[ct])
    /\ StrictlySorted(md.untagged)

\* C1: a store whose counts match still has matching counts after an
\* edit_image call whose data has a 'product' key and after an
\* update_image_product call.
C1_CountsPreserved ==
    [][(/\ CountsMatch(metadata)
        /\ last'.op \in {"edit_image", "update_image_product"}
        /\ "product" \in last'.fields)
       => CountsMatch(metadata')]_vars

\* C7: edit_image and a successful move_untagged_image applied to a store
\* whose images keys, structure lists and untagged list are sorted without
\* duplicates leave all three sorted without duplicates.
C7_SortedPreserved ==
    [][(/\ AllSorted(metadata)
        /\ \/ last'.op = "edit_image"
           \/ last'.op = "move_untagged_image" /\ ~last'.raised)
       => AllSorted(metadata')]_vars

HasMsg(msgs, k) == \E i \in 1..Len(msgs) : msgs[i].k = k

KeysOk(md) == md.keys = REQUIRED_KEYS_ORDER

\* C2: after validate(), strict or not, on data with the correct key order
\* every stored current_count equals the images assigned the product plus
\* the images assigned "all".
C2_CountsAfterValidate ==
    (vres.called /\ KeysOk(metadata)) => CountsMatch(metadata)

\* C2 (amended): the same, for the calls that reach the count pass: every
\* non-strict call, and the strict calls in which none of the six earlier
\* checks fails.
C2_CountsAfterCountPass ==
    (vres.called /\ KeysOk(metadata) /\ (~strict \/ Len(vres.ran) = Len(VALIDATORS)))
        => CountsMatch(metadata)

\* A call that rewrote a stored count, with an "all" image in the data
C2_Witness ==
    /\ vres.called /\ strict /\ Len(vres.ran) = Len(VALIDATORS)
    /\ HasMsg(errors, "incorrect_count")
    /\ \E i \in 1..Len(metadata.images) : metadata.images[i].product = ALL
    /\ \E i \in 1..Len(metadata.images) : metadata.images[i].product = P1

\* C3: when validate() returned True, a second call on the same data
\* returns the same verdict and an identical warnings list.
C3_SecondCallIdentical ==
    (prev.called /\ prev.result /\ last.op = "validate")
        => (vres.result = prev.result /\ vres.warnings = prev.warnings)

\* C3 (amended): the second call returns the same verdict and the first
\* call's warnings without its "Incorrect count" entries (the first call
\* rewrote the stored counts); no message is listed twice.
C3_SecondCallSameButCounts ==
    (prev.called /\ prev.result /\ last.op = "validate")
        => /\ vres.result = prev.result
           /\ vres.warnings =
                SelectSeq(prev.warnings, LAMBDA w : w.k # "incorrect_count")
           /\ NoDup(vres.warnings)

\* A second call after a first one that warned about an image without a
\* product and about a stored count
C3_Witness ==
    /\ prev.called /\ prev.result /\ vres.called
    /\ HasMsg(prev.warnings, "incorrect_count")
    /\ HasMsg(prev.warnings, "no_product_assigned")
    /\ HasMsg(vres.warnings, "no_product_assigned")

\* The errors a validator reports when it fails on the data
SectionErrors(v, md) ==
    LET r == RunValidator(v, [md |-> md, errors |-> <<>>, warnings |-> <<>>,
                              seen |-> {}], expected, files, strict)
    IN IF r.ok THEN {} ELSE {r.st.errors[Len(r.st.errors)]}

FailingValidators(md) ==
    SelectSeq(VALIDATORS, LAMBDA v : SectionErrors(v, md) # {})

\* C4: one validate() call, strict or not, reports the defect of every
\* section whose check fails; only the key-order check stops it early.
C4_AllSectionsReported ==
    (vres.called /\ KeysOk(metadata))
        => \A i \in 1..Len(VALIDATORS) :
              SectionErrors(VALIDATORS[i], metadata) \subseteq Range(errors)

\* C4 (amended): a non-strict call runs all seven checks and reports the
\* defect of every failing section; a strict call stops at the first check
\* that fails and reports that one; a wrong key order stops both.
C4_NonStrictAllStrictFirst ==
    vres.called =>
        IF ~KeysOk(metadata) THEN vres.ran = <<>>
        ELSE IF ~strict
        THEN /\ vres.ran = VALIDATORS
             /\ \A i \in 1..Len(VALIDATORS) :
                   SectionErrors(VALIDATORS[i], metadata) \subseteq Range(errors)
        ELSE LET failing == FailingValidators(metadata) IN
             IF failing = <<>> THEN vres.ran = VALIDATORS
             ELSE /\ vres.ran[Len(vres.ran)] = Head(failing)
                  /\ \A i \in 1..Len(vres.ran) - 1 : vres.ran[i] # Head(failing)
                  /\ SectionErrors(Head(failing), metadata) \subseteq Range(errors)
                  /\ ~vres.result

\* A non-strict call that reported a content types mismatch and a product
\* listed in two settings groups
C4_Witness ==
    /\ vres.called /\ ~strict
    /\ HasMsg(errors, "content_types_mismatch")
    /\ HasMsg(errors, "duplicate_products")

\* The settings an image points at are in order: what _validate_images
\* accepts without an error or a warning.
ImageSettingsInOrder(md, img) ==
    \/ img.settings_source = "default" /\ img.settings = Null
    \/ img.settings_source = "custom" /\ img.settings # Null
    \/ /\ img.settings_source = "content"
       /\ HasKey(md.settings[img.content_type], CONTENT)
       /\ ValueOf(md.settings[img.content_type], CONTENT) \notin {Null, "bad"}
    \/ /\ img.settings_source = "product"
       /\ FindGroupSettings(md.settings[img.content_type], img.product)
             \notin {Null, "bad"}

\* Image n has no product and the data has no other defect: the sections
\* match what is expected, the files are there with the stored sizes, the
\* counts are consistent, no product is under its minimum, untagged is
\* empty and the settings section is well formed.
OnlyDefectIsUnassigned(md, n) ==
    /\ KeysOk(md)
    /\ Range(md.content_types) = Range(expected.content_types)
    /\ DOMAIN md.products = DOMAIN expected.products
    /\ \A ct \in DOMAIN md.products :
          ProductNames(md.products[ct]) = Range(expected.products[ct])
    /\ \A ct \in DOMAIN md.structure :
          /\ Exists(files, BASE, ct)
          /\ \A i \in 1..Len(md.structure[ct]) : Exists(files, ct, md.structure[ct][i])
    /\ AllSorted(md)
    /\ HasImage(md, n) /\ ImageOf(md, n).product = NoneV
    /\ \A i \in 1..Len(md.images) :
          LET img == md.images[i] IN
          /\ img.content_type \in DOMAIN md.structure
          /\ img.name \in Range(md.structure[img.content_type])
          /\ FileOf(files, img.content_type, img.name)[3] = img.dimensions
          /\ ImageSettingsInOrder(md, img)
          /\ img.name # n =>
                img.product \in ProductNames(md.products[img.content_type]) \cup {ALL}
    /\ md.untagged = <<>>
    /\ \A ct \in DOMAIN md.settings : SettingsDefect(md, ct) = "none"
    /\ CountsMatch(md)
    /\ \A ct \in DOMAIN md.products : \A i \in 1..Len(md.products[ct]) :
          LET prod == md.products[ct][i] IN
          prod.prevent_duplicates =>
              DirectCount(md, ct, prod.name) >= prod.min_occurrences

\* C5: when the only defect is one image without a product, non-strict
\* validate() returns True with a "has no product assigned" warning naming
\* the image, and strict validate() returns False with that text as an error.
C5_UnassignedImage ==
    [][\A n \in Range(ImageNames) :
        (last'.op = "validate" /\ OnlyDefectIsUnassigned(metadata, n))
        => IF strict
           THEN ~vres'.result
                /\ Msg("no_product_assigned", n, <<>>, 1, 0) \in Range(errors')
           ELSE vres'.result
                /\ Msg("no_product_assigned", n, <<>>, 1, 0) \in Range(warnings')]_vars

\* C6: with the top-level keys out of order validate() returns False in
\* either mode, errors holds the key-order error alone, warnings is empty,
\* no check runs and the data is not modified.
C6_KeyOrderShortCircuits ==
    [][(last'.op = "validate" /\ ~KeysOk(metadata))
       => /\ ~vres'.result
          /\ errors' = <<Msg("keys_not_in_order", "", <<>>, 0, 0)>>
          /\ warnings' = <<>>
          /\ vres'.ran = <<>>
          /\ metadata' = metadata]_vars

\* A strict call on data with the keys out of order, an undeclared product
\* on an image and a stored count that is off
C6_Witness ==
    /\ vres.called /\ strict /\ ~KeysOk(metadata)
    /\ errors = <<Msg("keys_not_in_order", "", <<>>, 0, 0)>>
    /\ \E i \in 1..Len(metadata.images) : metadata.images[i].product = BOGUS
    /\ ~CountsMatch(metadata)

\* The product is reported as under its minimum by the call
FlaggedUnderMinimum(ct, name, es, ws, isStrict) ==
    \E m \in Range(IF isStrict THEN es ELSE ws) :
        m.k = "requires_at_least" /\ m.x = ct /\ m.p = name

\* C8: on data whose content types and product lists are as expected,
\* validate() flags a product as under its minimum (an error and False
\* when strict, a warning otherwise) exactly when prevent_duplicates is
\* set and the images assigned the product plus the images assigned "all"
\* are fewer than min_occurrences.
C8_UnderMinimumReconciled ==
    [][(/\ last'.op = "validate" /\ KeysOk(metadata)
        /\ Range(metadata.content_types) = Range(expected.content_types))
       => \A ct \in DOMAIN metadata.products :
            \A i \in 1..Len(metadata.products[ct]) :
              LET prod == metadata.products[ct][i]
                  under == prod.prevent_duplicates
                           /\ DirectCount(metadata, ct, prod.name)
                              + DirectCount(metadata, ct, ALL) < prod.min_occurrences
                  flagged == FlaggedUnderMinimum(ct, prod.name, errors',
                                                 warnings', strict)
              IN /\ flagged <=> under
                 /\ (flagged /\ strict) => ~vres'.result]_vars

Running == gen.status # "idle"

PreventDuplicates(md, ct, name) ==
    \E i \in 1..Len(md.products[ct]) :
        md.products[ct][i].name = name /\ md.products[ct][i].prevent_duplicates

\* C9: an image selected for a slot (ct, p) is listed in structure[ct]; for
\* a product name p the image's product is p; for the wildcard "all" the
\* image's product is a declared product of ct whose prevent_duplicates is
\* false, unless allow_all_duplicates is set.
C9_SelectedMatchesSlot ==
    Running =>
        \A i \in 1..Len(gen.picks) :
            LET pick == gen.picks[i]
                assigned == ImageOf(metadata, pick.image).product
            IN /\ pick.image \in Range(metadata.structure[pick.content_type])
               /\ pick.product # ALL => assigned = pick.product
               /\ pick.product = ALL =>
                     /\ assigned \in ProductNames(metadata.products[pick.content_type])
                     /\ gen.allow_all_duplicates
                        \/ ~PreventDuplicates(metadata, pick.content_type, assigned)

\* A post with a pick for a named product and a pick for the wildcard, in a
\* store that also holds images the wildcard must not select
C9_Witness ==
    /\ Running /\ ~gen.allow_all_duplicates
    /\ \E i, j \in 1..Len(gen.picks) :
          gen.picks[i].product = ALL /\ gen.picks[j].product = P1
    /\ \E n \in Range(metadata.structure["hook"]) :
          PreventDuplicates(metadata, "hook", ImageOf(metadata, n).product)

\* C10: within one post no image is selected for two slots of the same
\* pairing (ct, p) of a product with prevent_duplicates, and every image
\* selected for such a pairing is in the post's exclusion set.
C10_NoDuplicateInPost ==
    Running =>
        \A i \in 1..Len(gen.picks) :
            LET pick == gen.picks[i] IN
            (pick.product # ALL
             /\ PreventDuplicates(metadata, pick.content_type, pick.product))
            => /\ pick.image \in Range(gen.used_images[pick.content_type][pick.product])
               /\ \A j \in 1..Len(gen.picks) :
                     (j # i /\ gen.picks[j].content_type = pick.content_type
                      /\ gen.picks[j].product = pick.product)
                     => gen.picks[j].image # pick.image

\* A post that filled two slots of one duplicate-preventing pairing
C10_Witness ==
    /\ Running
    /\ \E i, j \in 1..Len(gen.picks) :
          /\ i < j
          /\ gen.picks[i].product = P1 /\ gen.picks[j].product = P1
          /\ gen.picks[i].content_type = gen.picks[j].content_type
          /\ PreventDuplicates(metadata, gen.picks[i].content_type, P1)
          /\ gen.picks[i].image # gen.picks[j].image


\* The images picked so far in the current post for the pairing (ct, p)
PickedInPost(ct, p) ==
    {gen.picks[i].image : i \in {j \in 1..Len(gen.picks) :
        gen.picks[j].content_type = ct /\ gen.picks[j].product = p}}

\* C11: the exclusion set of a pairing holds only images selected for that
\* pairing in the current post, so it is empty when a post begins, in every
\* variation, and an image consumed in an earlier post is selectable again.
C11_ExclusionResetPerPost ==
    Running =>
        \A ct \in DOMAIN gen.used_images : \A p \in DOMAIN gen.used_images[ct] :
            Range(gen.used_images[ct][p]) \subseteq PickedInPost(ct, p)

\* In the second post of the second variation the only image of the
\* prevent_duplicates pairing (hook, p), which the first slot of every
\* earlier post consumed, is selected again.
C11_Witness ==
    /\ Running
    /\ gen.variation_num = 2 /\ gen.post_num = 2
    /\ _should_prevent_duplicates(metadata, "hook", P1)
    /\ DirectCount(metadata, "hook", P1) = 1
    /\ gen.headers_map[1] = "hook"
    /\ gen.captions[1][1].product = P1
    /\ \E img \in PickedInPost("hook", P1) :
          /\ ProductOfImage(metadata, img) = P1
          /\ img \in Range(gen.used_images["hook"][P1])


\* The number of columns of the current post already filled for (ct, p)
SlotsFilled(ct, p) ==
    Cardinality({j \in 1..Len(gen.picks) :
        gen.picks[j].content_type = ct /\ gen.picks[j].product = p})

\* C12: for a prevent_duplicates product with n assigned images, a column of
\* that pairing gets an image while fewer than n columns of the post were
\* filled for it, and the next one raises an error naming the content type
\* and the product; after the error the run takes no further step.
C12_PoolExhaustion ==
    [][/\ gen.status # "failed"
       /\ (/\ last'.op = "_generate_single_image"
           /\ CurrentRow[gen.idx].product # ALL
           /\ PreventDuplicates(metadata, gen.headers_map[gen.idx],
                                CurrentRow[gen.idx].product))
          => LET ct == gen.headers_map[gen.idx]
                 p == CurrentRow[gen.idx].product
                 n == DirectCount(metadata, ct, p)
             IN IF SlotsFilled(ct, p) < n
                THEN /\ Len(gen'.picks) = Len(gen.picks) + 1
                     /\ gen'.error # "no_available_images"
                ELSE /\ gen'.status = "failed"
                     /\ gen'.error = "no_available_images"
                     /\ gen'.error_content_type = ct
                     /\ gen'.error_product = p
                     /\ gen'.picks = gen.picks]_vars

\* A post with three columns of (hook, p), two images assigned p: the third
\* column raised after two were filled.
C12_Witness ==
    /\ Running
    /\ gen.status = "failed" /\ gen.error = "no_available_images"
    /\ gen.error_content_type = "hook" /\ gen.error_product = P1
    /\ PreventDuplicates(metadata, "hook", P1)
    /\ DirectCount(metadata, "hook", P1) = 2
    /\ SlotsFilled("hook", P1) = 2
    /\ gen.idx = 3


\* The blobs of the product groups of a content type
GroupBlobs(md, ct) ==
    {md.settings[ct][i].value : i \in {j \in 1..Len(md.settings[ct]) :
        md.settings[ct][j].key # CONTENT}}

\* The blob at the content level of a content type, None when it has none
ContentBlob(md, ct) ==
    IF HasKey(md.settings[ct], CONTENT) THEN ValueOf(md.settings[ct], CONTENT)
    ELSE Null

C14_OwnProductGroup ==
    [][(/\ last'.op = "_generate_single_image"
        /\ Len(gen'.picks) = Len(gen.picks) + 1
        /\ ImageOf(metadata, gen'.picks[Len(gen'.picks)].image).settings_source
              = "product")
       => LET pick == gen'.picks[Len(gen'.picks)]
              img == ImageOf(metadata, pick.image)
              own == FindGroupSettings(metadata.settings[pick.content_type],
                                       img.product)
          IN own # Null => (gen'.status # "failed" /\ gen'.settings = own)]_vars


\* C15: a move_untagged_image call that raises leaves the file system and
\* the in-memory store as they were.
C15_MoveFailureChangesNothing ==
    [][(last'.op = "move_untagged_image" /\ last'.raised)
       => (metadata' = metadata /\ files' = files)]_vars


\* C16: an update_image_product call that returns leaves the store as the
\* same call made with the content type recorded on the image leaves it:
\* the caller-supplied content_type has no effect.
C16_CallerContentTypeIgnored ==
    [][(last'.op = "update_image_product" /\ ~last'.raised)
       => metadata' =
            update_image_product(metadata, last'.name,
                ImageOf(metadata, last'.name).content_type,
                last'.product).md]_vars


\* C17: after an editor mutation (edit_image, edit_settings,
\* update_image_product, move_untagged_image) returns, metadata.json holds
\* the in-memory store.
C17_PersistAfterMutation ==
    [][(/\ last'.op \in {"edit_image", "edit_settings", "update_image_product",
                         "move_untagged_image"}
        /\ ~last'.raised)
       => disk' = metadata']_vars


\* C18: after an edit_image call whose data has a 'product' key, the image
\* is in untagged exactly when the new product is None, and every other
\* name is in untagged exactly when it was before.
C18_UntaggedIffNoProduct ==
    [][(last'.op = "edit_image" /\ ~last'.raised /\ "product" \in last'.fields)
       => /\ (last'.name \in Range(metadata'.untagged))
               <=> (last'.product = NoneV)
          /\ \A n \in Range(ImageNames) \ {last'.name} :
               (n \in Range(metadata'.untagged))
                   <=> (n \in Range(metadata.untagged))]_vars

\* edit_image set the product of a.png to None: a.png joined untagged, where
\* c.png still is.
C18_Witness ==
    /\ last.op = "edit_image" /\ ~last.raised /\ "product" \in last.fields
    /\ last.name = "a.png" /\ last.product = NoneV
    /\ "a.png" \in Range(metadata.untagged)
    /\ "c.png" \in Range(metadata.untagged)


\* Every name in untagged is a file of the base folder, has no image record
\* and is in no structure list
UntaggedApart(md, fs) ==
    \A n \in Range(md.untagged) :
        /\ Exists(fs, BASE, n)
        /\ ~HasImage(md, n)
        /\ \A ct \in DOMAIN md.structure : n \notin Range(md.structure[ct])

\* C19: untagged and the images map are disjoint, every untagged name being
\* a file of the base folder outside every structure list, after each
\* edit_image and move_untagged_image call on a store where this held.
C19_UntaggedDisjoint ==
    [][(/\ last'.op \in {"edit_image", "move_untagged_image"}
        /\ ~last'.raised
        /\ UntaggedApart(metadata, files))
       => UntaggedApart(metadata', files')]_vars


\* The product groups of a content type: the entries under a key other
\* than "content"
GroupsOf(md, ct) ==
    SelectSeq(md.settings[ct], LAMBDA e : e.key # CONTENT)

\* The members of a group key in the order the key lists them
GroupMembers(key) ==
    LET pieces == SplitComma(Inner(key), <<>>)
    IN [i \in 1..Len(pieces) |-> Strip(pieces[i])]

\* Every group of ct is non-empty and lists its members in sorted order,
\* and no product is in two groups
GroupsPartition(md, ct) ==
    LET groups == GroupsOf(md, ct) IN
    /\ \A i \in 1..Len(groups) :
          LET members == GroupMembers(groups[i].key) IN
          /\ Bracketed(groups[i].key)
          /\ <<>> \notin Range(members)
          /\ \A j \in 1..(Len(members) - 1) :
                ProductRank(members[j]) < ProductRank(members[j + 1])
    /\ \A i, j \in 1..Len(groups) :
          i # j => GroupProducts(groups[i].key) \cap GroupProducts(groups[j].key) = {}

\* C20: edit_settings(level="product", target=p, data, content_type=ct)
\* returns, and then p is in exactly one group of ct, whose blob is data,
\* and the groups of ct are non-empty, sorted and pairwise disjoint.
C20_ProductSettingsGroups ==
    [][(last'.op = "edit_settings" /\ last'.level = "product" /\ last'.ct # "")
       => /\ ~last'.raised
          /\ LET groups == GroupsOf(metadata', last'.ct)
                 mine == {i \in 1..Len(groups) :
                             last'.product \in GroupProducts(groups[i].key)}
             IN /\ Cardinality(mine) = 1
                /\ \A i \in mine : groups[i].value \in EditSettingsData
          /\ GroupsPartition(metadata', last'.ct)]_vars


\* Some image's product is neither None, nor "all", nor a declared product
\* of the image's content type
HasInvalidProductReference(md) ==
    \E i \in 1..Len(md.images) :
        /\ md.images[i].product \notin {NoneV, ALL}
        /\ md.images[i].product
              \notin ProductNames(md.products[md.images[i].content_type])

\* C21: validate() returns False, strict or not, when some image's product
\* is neither None, nor "all", nor a declared product of the image's content
\* type, whatever the image's settings_source.
C21_InvalidProductRejected ==
    (vres.called /\ HasInvalidProductReference(metadata)) => ~vres.result


\* C22: when validate() returned True, in the settings of every content
\* type every key other than "content" is a bracketed group key, no product
\* name is in two group keys and every group member is a declared product
\* of the content type or "all".
C22_AcceptedGroupsWellFormed ==
    (vres.called /\ vres.result) =>
        \A ct \in DOMAIN metadata.settings :
            LET groups == GroupsOf(metadata, ct) IN
            /\ \A i \in 1..Len(groups) :
                  /\ Bracketed(groups[i].key)
                  /\ GroupProducts(groups[i].key)
                        \subseteq ProductNames(metadata.products[ct]) \cup {ALL}
            /\ \A i, j \in 1..Len(groups) :
                  i # j => GroupProducts(groups[i].key)
                              \cap GroupProducts(groups[j].key) = {}

\* A call that returned True on data whose hook settings hold two groups
C22_Witness ==
    /\ vres.called /\ vres.result
    /\ Len(GroupsOf(metadata, "hook")) = 2


\* C23: after a move_untagged_image(name, ct) call that returns, name is not
\* in untagged, name is in the structure list of ct, images[name] is a fresh
\* record (content_type ct, product None, settings_source "default",
\* settings None, the dimensions of the moved file) and metadata.json holds
\* the in-memory store.
C23_MoveSucceeds ==
    [][(last'.op = "move_untagged_image" /\ ~last'.raised)
       => /\ last'.name \notin Range(metadata'.untagged)
          /\ last'.name \in Range(metadata'.structure[last'.ct])
          /\ HasImage(metadata', last'.name)
          /\ ImageOf(metadata', last'.name) =
                Image(last'.name, last'.ct,
                      FileOf(files', last'.ct, last'.name)[3],
                      NoneV, "default", Null)
          /\ disk' = metadata']_vars

\* c.png was moved to hook after an edit_image call that had left
\* metadata.json behind the store
C23_Witness ==
    /\ last.op = "move_untagged_image" /\ ~last.raised
    /\ last.name = "c.png" /\ last.ct = "hook"
    /\ metadata.structure["hook"] = <<"a.png", "c.png">>
    /\ ImageOf(metadata, "a.png").product = P2
    /\ disk = metadata


\* The blob of the first bracketed group key, in dict order, whose members
\* include p; None when no group lists p
RECURSIVE FirstGroupListing(_, _)
FirstGroupListing(groups, p) ==
    IF groups = <<>> THEN Null
    ELSE IF Bracketed(Head(groups).key) /\ p \in GroupProducts(Head(groups).key)
         THEN Head(groups).value
         ELSE FirstGroupListing(Tail(groups), p)

\* C24: get_settings("product", p, ct) raises when p or ct is missing;
\* otherwise it returns the blob under the key "[p]" if ct has that key,
\* else the blob of the first bracketed group key of ct that lists p, else
\* None; the store is not modified.
C24_ProductSettingsLookup ==
    [][(last'.op = "get_settings" /\ last'.level = "product")
       => /\ metadata' = metadata
          /\ IF last'.product = NoneV \/ last'.ct = "" THEN last'.raised
             ELSE LET groups == metadata.settings[last'.ct]
                      single == SingleProductKey(last'.product)
                  IN /\ ~last'.raised
                     /\ last'.out = IF HasKey(groups, single)
                                    THEN ValueOf(groups, single)
                                    ELSE FirstGroupListing(groups, last'.product)]_vars


\* C25: no step of a generation run, be it one that ends the run with an
\* error, changes the store (content_types, products with their counts,
\* structure, images, untagged, settings) or metadata.json, and none is an
\* editor call.
C25_GenerationReadsOnly ==
    [][gen'.status # "idle"
       => (metadata' = metadata /\ disk' = disk /\ nops' = nops)]_vars

\* A run that filled every post of its first variation and ended with an
\* error in the second, the store being what metadata.json holds
C25_Witness ==
    /\ gen.status = "failed" /\ gen.variation_num = 2
    /\ Len(gen.picks) >= 1
    /\ metadata = disk


\* C26: the top-level keys are in the order content_types, products,
\* structure, images, untagged, settings in the store generate() produces
\* and after every editor call (edit_image, edit_untagged, edit_settings,
\* update_image_product, move_untagged_image), in memory and in
\* metadata.json.
C26_KeyOrderKept ==
    /\ metadata.keys = REQUIRED_KEYS_ORDER
    /\ disk.keys = REQUIRED_KEYS_ORDER

\* edit_image reassigned untagged, move_untagged_image rebuilt images and
\* wrote the file, and edit_untagged replaced the list
C26_Witness ==
    /\ last.op = "edit_untagged" /\ nops = 3
    /\ HasImage(metadata, "c.png") /\ HasImage(disk, "c.png")
    /\ ImageOf(metadata, "a.png").product = P2
    /\ metadata.untagged = <<>>


\* C27: when validate() returned True, strict or not, the errors list is
\* empty.
C27_AcceptedWithoutErrors ==
    (vres.called /\ vres.result) => errors = <<>>


\* C28: within one post no image whose product has prevent_duplicates set
\* is selected for two slots, whether the slots name the product or are
\* wildcard slots, with allow_all_duplicates set or not.
C28_NoDuplicateAcrossSlots ==
    Running =>
        \A i, j \in 1..Len(gen.picks) :
            (/\ i # j
             /\ PreventDuplicates(metadata, gen.picks[i].content_type,
                                  ProductOfImage(metadata, gen.picks[i].image)))
            => gen.picks[i].image # gen.picks[j].image


\* The products MetadataEditor.get_settings takes a group key to list
EditorListed(key) == Range(SplitCommaSpace(StripBrackets(key), <<>>))

\* C29: for every group key of a store validate() accepted, get_settings on
\* one side and the validator and Generator._get_image_settings (which
\* parse the key alike) on the other agree, for every product name, on
\* whether the key lists that product.
C29_GroupParsersAgree ==
    (vres.called /\ vres.result) =>
        \A ct \in DOMAIN metadata.settings :
            \A i \in 1..Len(GroupsOf(metadata, ct)) :
                \A p \in {P1, P2, BOGUS, ALL} :
                    (p \in EditorListed(GroupsOf(metadata, ct)[i].key))
                        <=> (p \in GroupProducts(GroupsOf(metadata, ct)[i].key))


\* C30: the store generate() produced for given content types and products
\* is accepted by a non-strict validate() against the same content types
\* and products, for every product configuration, a content type with an
\* empty product list included.
C30_GeneratedStoreAccepted ==
    [][(last.op = "generate" /\ last'.op = "validate" /\ ~strict)
       => vres'.result]_vars

=============================================================================
